---- MODULE Spec2Model ----
(***************************************************************************)
(* Model of the realtime speech pipeline of Partenaire en Parole:          *)
(*   GeminiLiveService  (src/services/gemini.ts)                            *)
(*   LiveInterface      (src/unnamed/part_000)                              *)
(*                                                                         *)
(* Seven specifications are given.                                          *)
(*   Spec          the LiveInterface component driving the services it     *)
(*                 constructs: Start / End clicks, unmount, the session     *)
(*                 events and capture callbacks of every service.           *)
(*   ServiceSpec   one GeminiLiveService driven through its public API      *)
(*                 (connect, disconnect) by a caller whose onDisconnect     *)
(*                 callback is only counted, with platform failures         *)
(*                 injected into disconnect().                              *)
(*   PlaybackSpec  the same service and its inbound audio, no failures.     *)
(*   CaptureSpec   the same service and its outbound audio, no failures.    *)
(*   BurstSpec     PlaybackSpec with a longer burst of inbound chunks.      *)
(*   VisualizerSpec  LiveInterface with its animation-frame loop.           *)
(*   InstructionSpec  the AppConfig (from SetupForm or from a caller) and   *)
(*                 the system instruction built from it.                    *)
(* Every service is connected at most once: LiveInterface, the only caller *)
(* in the repository, constructs a fresh service for every connect.        *)
(***************************************************************************)
EXTENDS Integers, Sequences, FiniteSets

\* ---------------------------------------------------------------- bounds
MaxServices == 2
MaxChunks == 2
MaxBurst == 3
MaxSessions == 1
MaxFrames == 2
MaxTime == 2
MaxDur == 2
MaxFaults == 1
MaxInput == 4
BinCount == 2
MaxWords == 2

Svc == 1..MaxServices
Durations == 1..MaxDur

\* The message LiveInterface.startSession sets on failure.
ErrorMessage == "Could not access microphone or connect to API."

\* The failures the platform can raise inside disconnect(): none, or a throw
\* out of session.close() (inside the promise reaction), source.stop(),
\* track.stop(), or AudioContext.close().
Faults == {"none", "close", "stop", "tracks", "ctx"}

VARIABLES
    \* LiveInterface
    mounted,             \* the component is mounted
    isActive,            \* useState(false)
    error,               \* useState('')
    liveServiceRef,      \* useRef: 0 is null, else a service id
    nServices,           \* services constructed so far
    \* GeminiLiveService, one value per service
    connectPc,           \* position of connect(): idle (not called), awaitMic, resolved, rejected
    inputAudioContext,   \* null | running | closed (field nulled, object closed)
    outputAudioContext,  \* null | running | closed
    stream,              \* null | live | stopped (tracks stopped)
    sessionPromise,      \* the field is non-null
    session,             \* the promise object: none | pending | resolved | rejected
    processor,           \* null | connected | disconnected
    nextStartTime,
    sources,             \* set of chunk ids (one source node per chunk)
    \* environment of each service
    transport,           \* none | connecting | open | errored | failed | closing | closed
    thenQueue,           \* reactions registered on the pending session promise
    sent,                \* frames handed to session.sendRealtimeInput, in call order
    closeAt,             \* sendRealtimeInput calls made before session.close() was
                         \* first invoked; -1 while it was not invoked
    captured,            \* capture callbacks so far
    currentTime,         \* outputAudioContext.currentTime
    chunks,              \* inbound chunks in arrival order: [dur, st]
    started,             \* source.start calls in call order: [chunk, at]
    onDisconnectCalls,   \* invocations of the caller's onDisconnect
    faults,              \* platform failures injected so far
    \* App / SetupForm
    config,              \* the interface's config prop: <<>> while the form shows
    formError,           \* SetupForm's error
    instruction,         \* the systemInstruction last built from config, <<>> if none
    \* volume
    reported,            \* the value last passed to onVolumeChange, <<>> if none
    volume,              \* LiveInterface's volume state
    \* visualizer
    rafPending,          \* pending animation-frame callbacks in request order;
                         \* TRUE marks the one whose id animationRef.current holds
    effectPending,       \* the [volume] effect is to be (re-)run
    lastOp               \* the handler that ran last: [op, svc, fault, threw, again]

vars == <<mounted, isActive, error, liveServiceRef, nServices, connectPc,
          inputAudioContext, outputAudioContext, stream, sessionPromise, session,
          processor, nextStartTime, sources, transport, thenQueue, sent, captured,
          currentTime, chunks, started, onDisconnectCalls, faults, config, formError,
          instruction, reported, volume, rafPending, effectPending, closeAt,
          lastOp>>

uiVars == <<mounted, isActive, error, liveServiceRef, nServices, faults>>
audioInVars == <<thenQueue, sent, captured>>
audioOutVars == <<nextStartTime, sources, currentTime, chunks, started>>
formVars == <<config, formError, instruction>>
volumeVars == <<reported, volume>>
visualVars == <<rafPending, effectPending>>
liveVars == <<mounted, isActive, error, liveServiceRef, nServices, connectPc,
              inputAudioContext, outputAudioContext, stream, sessionPromise,
              session, processor, nextStartTime, sources, transport, thenQueue,
              sent, captured, currentTime, chunks, started, onDisconnectCalls,
              faults, reported, volume, rafPending, effectPending,
              closeAt, lastOp>>

\* Mutant of Max: the cursor is set to the clock whatever it was.
Latter(a, b) == b

Max(a, b) == IF a >= b THEN a ELSE b

\* What lastOp records of a call whose outcome is observed (disconnect, a failed
\* startSession): the service it ran on, the platform failure injected into it,
\* whether it threw, and (for disconnect) whether it directly follows a
\* completed disconnect of the same service. Every other handler leaves Other.
Op(o, s) == [op |-> o, svc |-> s, fault |-> "none", threw |-> FALSE, again |-> FALSE]
Other == Op("other", 0)

\* ------------------------------------------------------------------ Init
\* No volume was reported yet; useState(0) (part_000:12).
Zero == [num |-> 0, den |-> 1]

VolumeInit ==
    /\ reported = <<>>
    /\ volume = Zero

\* The [volume] effect runs after the first commit of a mounted component
\* (part_000:63-66); no animation frame was requested yet.
VisualInit ==
    /\ rafPending = <<>>
    /\ effectPending = mounted

\* App and SetupForm before the form is submitted (part_001:8, part_000:187).
FormInit ==
    /\ config = <<>>
    /\ formError = ""
    /\ instruction = <<>>

ServiceInit ==
    /\ connectPc = [s \in Svc |-> "idle"]
    /\ inputAudioContext = [s \in Svc |-> "null"]
    /\ outputAudioContext = [s \in Svc |-> "null"]
    /\ stream = [s \in Svc |-> "null"]
    /\ sessionPromise = [s \in Svc |-> FALSE]
    /\ session = [s \in Svc |-> "none"]
    /\ processor = [s \in Svc |-> "null"]
    /\ nextStartTime = [s \in Svc |-> 0]
    /\ sources = [s \in Svc |-> {}]
    /\ transport = [s \in Svc |-> "none"]
    /\ thenQueue = [s \in Svc |-> <<>>]
    /\ sent = [s \in Svc |-> <<>>]
    /\ closeAt = [s \in Svc |-> -1]
    /\ captured = [s \in Svc |-> 0]
    /\ currentTime = [s \in Svc |-> 0]
    /\ chunks = [s \in Svc |-> <<>>]
    /\ started = [s \in Svc |-> <<>>]
    /\ onDisconnectCalls = [s \in Svc |-> 0]

Init ==
    /\ mounted = TRUE
    /\ isActive = FALSE
    /\ error = ""
    /\ liveServiceRef = 0
    /\ nServices = 0
    /\ ServiceInit
    /\ faults = 0
    /\ FormInit
    /\ VolumeInit
    /\ VisualInit
    /\ lastOp = Other

\* ------------------------------------------------- LiveInterface callbacks
\* React state setters are no-ops once the component is unmounted.
SetIsActive(v) == isActive' = IF mounted THEN v ELSE isActive

\* The onDisconnect callback LiveInterface passes to connect (part_000:78-80).
OnDisconnectCallback(s) ==
    /\ onDisconnectCalls' = [onDisconnectCalls EXCEPT ![s] = @ + 1]
    /\ SetIsActive(FALSE)

\* ------------------------------------------------------ promise reactions
\* A reaction is a frame number (send that frame) or CloseReaction (s.close()).
CloseReaction == 0

\* Mutant of RegisterThen: the newest reaction runs first.
RegisterThenFirst(q, r) == <<r>> \o q

\* sessionPromise.then(cb): reactions of one promise run in registration order.
RegisterThen(q, r) == Append(q, r)

\* What one sendRealtimeInput call is recorded as: the frame, and whether its
\* reaction had been registered while the session promise was still pending.
SentFrame(n, e) == [frame |-> n, early |-> e]

\* The sendRealtimeInput calls made when the reactions of q run, in order.
RECURSIVE FramesOf(_)
FramesOf(q) ==
    IF q = <<>> THEN <<>>
    ELSE IF Head(q) = CloseReaction THEN FramesOf(Tail(q))
    ELSE <<SentFrame(Head(q), TRUE)>> \o FramesOf(Tail(q))

HasClose(q) == \E i \in 1..Len(q) : q[i] = CloseReaction

\* The sendRealtimeInput calls made before the first close() when the
\* reactions of q run.
RECURSIVE FramesBeforeClose(_)
FramesBeforeClose(q) ==
    IF q = <<>> \/ Head(q) = CloseReaction THEN 0
    ELSE 1 + FramesBeforeClose(Tail(q))

\* Mutant of RegisterClose: the close does not wait behind the pending sends.
RegisterCloseFirst(q) == <<CloseReaction>> \o q

\* sessionPromise.then(s => s.close()) on a pending promise (gemini.ts:178).
RegisterClose(q) == RegisterThen(q, CloseReaction)

\* closeAt of s once close() is invoked after n sendRealtimeInput calls.
CloseInvokedAt(s, n) == IF closeAt[s] = -1 THEN n ELSE closeAt[s]

\* session.close() on a transport: an open socket starts closing.
AfterClose(t) == IF t \in {"open", "errored"} THEN "closing" ELSE t

\* ------------------------------------------------------------- connect
\* connect() up to its await of getUserMedia (gemini.ts:73-81).
ConnectBegin(s) ==
    /\ inputAudioContext' = [inputAudioContext EXCEPT ![s] = "running"]
    /\ outputAudioContext' = [outputAudioContext EXCEPT ![s] = "running"]
    /\ connectPc' = [connectPc EXCEPT ![s] = "awaitMic"]

\* getUserMedia resolves: the rest of connect() (gemini.ts:81-118), which does
\* not await the handshake, then the caller's continuation (part_000:81).
MicGranted(s) ==
    /\ connectPc[s] = "awaitMic"
    /\ connectPc' = [connectPc EXCEPT ![s] = "resolved"]
    /\ stream' = [stream EXCEPT ![s] = "live"]
    /\ sessionPromise' = [sessionPromise EXCEPT ![s] = TRUE]
    /\ session' = [session EXCEPT ![s] = "pending"]
    /\ transport' = [transport EXCEPT ![s] = "connecting"]
    /\ SetIsActive(TRUE)
    /\ lastOp' = Other
    /\ UNCHANGED <<mounted, error, liveServiceRef, nServices, faults, inputAudioContext,
                   outputAudioContext, processor, onDisconnectCalls>>
    /\ UNCHANGED <<audioInVars, audioOutVars>>
    /\ UNCHANGED formVars
    /\ UNCHANGED volumeVars
    /\ UNCHANGED visualVars
    /\ UNCHANGED closeAt

\* getUserMedia rejects: connect() rejects, startSession's catch runs
\* (part_000:82-86).
MicRejected(s) ==
    /\ connectPc[s] = "awaitMic"
    /\ connectPc' = [connectPc EXCEPT ![s] = "rejected"]
    /\ error' = IF mounted THEN ErrorMessage ELSE error
    /\ SetIsActive(FALSE)
    /\ lastOp' = Op("startSessionFailed", s)
    /\ UNCHANGED <<mounted, liveServiceRef, nServices, faults, inputAudioContext,
                   outputAudioContext, stream, sessionPromise, session, processor,
                   transport, onDisconnectCalls>>
    /\ UNCHANGED <<audioInVars, audioOutVars>>
    /\ UNCHANGED formVars
    /\ UNCHANGED volumeVars
    /\ UNCHANGED visualVars
    /\ UNCHANGED closeAt

\* ----------------------------------------------------------- disconnect
\* The sources of s in the order the Set iterates them (insertion order).
RECURSIVE SourcesInOrder(_, _)
SourcesInOrder(st, set) ==
    IF st = <<>> THEN <<>>
    ELSE IF Head(st).chunk \in set
         THEN <<Head(st).chunk>> \o SourcesInOrder(Tail(st), set)
         ELSE SourcesInOrder(Tail(st), set)

\* The platform call the fault f is injected into is made by this disconnect.
FaultApplicable(s, f) ==
    CASE f = "none" -> TRUE
      [] f = "close" -> sessionPromise[s] /\ session[s] = "resolved"
      [] f = "stop" -> sources[s] # {}
      [] f = "tracks" -> stream[s] # "null"
      [] f = "ctx" -> inputAudioContext[s] = "running"

\* Steps of disconnect() that complete when the fault f is injected: a throw is
\* not caught, so it skips every later statement (gemini.ts:176-193).
CompletesSources(f) == f # "stop"
CompletesTracks(f) == f \notin {"stop", "tracks"}
CompletesContexts(f) == f \notin {"stop", "tracks", "ctx"}

DisconnectThrows(s, f) == f \in {"stop", "tracks", "ctx"}

\* Mutant of ClearedSources: the set is not cleared.
KeptSources(set) == set

\* sources.clear() (gemini.ts:182).
ClearedSources(set) == {}

\* chunks of s after stop() was called on the sources in `stopped`.
StopSources(s, stopped) ==
    [c \in 1..Len(chunks[s]) |->
        IF c \in stopped /\ chunks[s][c].st = "started"
        THEN [chunks[s][c] EXCEPT !.st = "stopped"]
        ELSE chunks[s][c]]

\* GeminiLiveService.disconnect() with the platform failure f.
Disconnect(s, f) ==
    /\ FaultApplicable(s, f)
    /\ IF f = "none" THEN faults' = faults
       ELSE faults < MaxFaults /\ faults' = faults + 1
    \* (a) sessionPromise.then(s => s.close())
    /\ IF sessionPromise[s] /\ session[s] = "pending"
       THEN thenQueue' = [thenQueue EXCEPT ![s] = RegisterClose(@)]
       ELSE thenQueue' = thenQueue
    /\ IF sessionPromise[s] /\ session[s] = "resolved" /\ f # "close"
       THEN /\ transport' = [transport EXCEPT ![s] = AfterClose(@)]
            /\ closeAt' = [closeAt EXCEPT ![s] = CloseInvokedAt(s, Len(sent[s]))]
       ELSE UNCHANGED <<transport, closeAt>>
    \* (b) sources.forEach(s => s.stop()); sources.clear()
    /\ IF CompletesSources(f)
       THEN /\ chunks' = [chunks EXCEPT ![s] = StopSources(s, sources[s])]
            /\ sources' = [sources EXCEPT ![s] = ClearedSources(@)]
       ELSE \E k \in 0..(Cardinality(sources[s]) - 1) :
            LET order == SourcesInOrder(started[s], sources[s])
                stopped == {order[i] : i \in 1..k}
            IN  /\ chunks' = [chunks EXCEPT ![s] = StopSources(s, stopped)]
                /\ sources' = sources
    \* (c) stream?.getTracks().forEach(t => t.stop())
    /\ IF CompletesTracks(f) /\ stream[s] = "live"
       THEN stream' = [stream EXCEPT ![s] = "stopped"]
       ELSE stream' = stream
    \* inputSource?.disconnect(); processor?.disconnect()
    /\ IF CompletesTracks(f) /\ processor[s] = "connected"
       THEN processor' = [processor EXCEPT ![s] = "disconnected"]
       ELSE processor' = processor
    \* (d) close both contexts, then null the three fields
    /\ IF CompletesContexts(f)
       THEN /\ inputAudioContext' = [inputAudioContext EXCEPT ![s] =
                                        IF @ = "running" THEN "closed" ELSE @]
            /\ outputAudioContext' = [outputAudioContext EXCEPT ![s] =
                                        IF @ = "running" THEN "closed" ELSE @]
            /\ sessionPromise' = [sessionPromise EXCEPT ![s] = FALSE]
       ELSE UNCHANGED <<inputAudioContext, outputAudioContext, sessionPromise>>
    /\ lastOp' = [op |-> "disconnect", svc |-> s, fault |-> f,
                  threw |-> DisconnectThrows(s, f),
                  again |-> (lastOp.op = "disconnect" /\ lastOp.svc = s
                             /\ ~lastOp.threw)]
    /\ UNCHANGED <<connectPc, session, nextStartTime, sent, captured, currentTime,
                   started, onDisconnectCalls>>

\* ------------------------------------------------------ transport events
\* Mutant of StartAudioInput: the processor is created whatever the fields hold.
StartAudioInputUnguarded(s) == "connected"

\* startAudioInput() (gemini.ts:120-149): the value of processor afterwards.
StartAudioInput(s) ==
    IF inputAudioContext[s] # "running" \/ stream[s] = "null" \/ ~sessionPromise[s]
    THEN processor[s]
    ELSE "connected"

\* onopen (gemini.ts:93-96).
OnOpen(s) ==
    /\ transport[s] = "connecting"
    /\ transport' = [transport EXCEPT ![s] = "open"]
    /\ processor' = [processor EXCEPT ![s] = StartAudioInput(s)]
    /\ lastOp' = Other
    /\ UNCHANGED <<uiVars, connectPc, inputAudioContext, outputAudioContext, stream,
                   sessionPromise, session, onDisconnectCalls>>
    /\ UNCHANGED <<audioInVars, audioOutVars>>
    /\ UNCHANGED formVars
    /\ UNCHANGED volumeVars
    /\ UNCHANGED visualVars
    /\ UNCHANGED closeAt

\* The session promise resolves after onopen; its reactions run in order
\* (gemini.ts:142-144 and 178).
SessionResolved(s) ==
    /\ session[s] = "pending"
    /\ transport[s] \in {"open", "errored", "closing", "closed"}
    /\ session' = [session EXCEPT ![s] = "resolved"]
    /\ sent' = [sent EXCEPT ![s] = @ \o FramesOf(thenQueue[s])]
    /\ transport' = [transport EXCEPT ![s] =
                        IF HasClose(thenQueue[s]) THEN AfterClose(@) ELSE @]
    /\ closeAt' = [closeAt EXCEPT ![s] =
                      IF HasClose(thenQueue[s])
                      THEN CloseInvokedAt(s, Len(sent[s])
                                             + FramesBeforeClose(thenQueue[s]))
                      ELSE @]
    /\ thenQueue' = [thenQueue EXCEPT ![s] = <<>>]
    /\ lastOp' = Other
    /\ UNCHANGED <<uiVars, connectPc, inputAudioContext, outputAudioContext, stream,
                   sessionPromise, processor, captured, onDisconnectCalls>>
    /\ UNCHANGED audioOutVars
    /\ UNCHANGED formVars
    /\ UNCHANGED volumeVars
    /\ UNCHANGED visualVars

\* The handshake fails: the session promise rejects and the transport reports
\* the error through onerror (gemini.ts:112-115).
HandshakeFailed(s) ==
    /\ transport[s] = "connecting"
    /\ transport' = [transport EXCEPT ![s] = "failed"]
    /\ session' = [session EXCEPT ![s] = "rejected"]
    /\ OnDisconnectCallback(s)
    /\ lastOp' = Other
    /\ UNCHANGED <<mounted, error, liveServiceRef, nServices, faults, connectPc,
                   inputAudioContext, outputAudioContext, stream, sessionPromise,
                   processor>>
    /\ UNCHANGED <<audioInVars, audioOutVars>>
    /\ UNCHANGED formVars
    /\ UNCHANGED volumeVars
    /\ UNCHANGED visualVars
    /\ UNCHANGED closeAt

\* onerror on an open session (gemini.ts:112-115).
OnError(s) ==
    /\ transport[s] = "open"
    /\ transport' = [transport EXCEPT ![s] = "errored"]
    /\ OnDisconnectCallback(s)
    /\ lastOp' = Other
    /\ UNCHANGED <<mounted, error, liveServiceRef, nServices, faults, connectPc,
                   inputAudioContext, outputAudioContext, stream, sessionPromise,
                   session, processor>>
    /\ UNCHANGED <<audioInVars, audioOutVars>>
    /\ UNCHANGED formVars
    /\ UNCHANGED volumeVars
    /\ UNCHANGED visualVars
    /\ UNCHANGED closeAt

\* onclose (gemini.ts:108-111): the remote side closed, the close requested by
\* disconnect() completed, or the socket closes after an error.
OnClose(s) ==
    /\ transport[s] \in {"open", "errored", "failed", "closing"}
    /\ transport' = [transport EXCEPT ![s] = "closed"]
    /\ OnDisconnectCallback(s)
    /\ lastOp' = Other
    /\ UNCHANGED <<mounted, error, liveServiceRef, nServices, faults, connectPc,
                   inputAudioContext, outputAudioContext, stream, sessionPromise,
                   session, processor>>
    /\ UNCHANGED <<audioInVars, audioOutVars>>
    /\ UNCHANGED formVars
    /\ UNCHANGED volumeVars
    /\ UNCHANGED visualVars
    /\ UNCHANGED closeAt

\* ------------------------------------------------------------- capture
\* A Uint8Array element.
ByteMax == 255
ByteLevels == {0, ByteMax}

\* analyzer.getByteFrequencyData(dataArray): any bytes in the bins.
ByteFrequencyData == [1..BinCount -> ByteLevels]

RECURSIVE Gcd(_, _)
Gcd(a, b) == IF b = 0 THEN a ELSE Gcd(b, a % b)

\* The number n / d.
Rat(n, d) == [num |-> n \div Gcd(n, d), den |-> d \div Gcd(n, d)]

RECURSIVE Reduce(_)
Reduce(a) == IF Len(a) = 1 THEN a[1] ELSE a[1] + Reduce(Tail(a))

SumOnly(bins) == Rat(Reduce(bins), 1)

\* dataArray.reduce((a, b) => a + b) / dataArray.length
Average(bins) == Rat(Reduce(bins), Len(bins))

\* requestAnimationFrame(drawVisualizer), its id stored in animationRef.current.
RequestAnimationFrame(q) == Append([i \in 1..Len(q) |-> FALSE], TRUE)

\* Mutant of CancelAnimationFrame: nothing is cancelled.
CancelNothing(q) == q

\* cancelAnimationFrame(animationRef.current)
CancelAnimationFrame(q) ==
    LET NotHeld(b) == ~b IN SelectSeq(q, NotHeld)

\* A changed volume re-renders the mounted component and marks the [volume]
\* effect for re-running (part_000:66).
EffectAfter(v) == effectPending \/ (mounted /\ v # volume)

\* setVolume, a no-op once the component is unmounted.
SetVolume(v) == IF mounted THEN v ELSE volume

\* processor.onaudioprocess (gemini.ts:132-145): frame number captured+1 is
\* handed to sessionPromise.then; on a resolved promise the reaction runs
\* before the next capture callback.
Capture(s) ==
    /\ processor[s] = "connected"
    /\ inputAudioContext[s] = "running"
    /\ captured[s] < MaxFrames
    /\ captured' = [captured EXCEPT ![s] = @ + 1]
    /\ \E bins \in ByteFrequencyData :
          /\ reported' = <<Average(bins)>>
          /\ volume' = SetVolume(Average(bins))
          /\ effectPending' = EffectAfter(Average(bins))
    /\ UNCHANGED rafPending
    /\ IF ~sessionPromise[s]
       THEN UNCHANGED <<thenQueue, sent>>
       ELSE CASE session[s] = "pending" ->
                   /\ thenQueue' = [thenQueue EXCEPT ![s] =
                                       RegisterThen(@, captured[s] + 1)]
                   /\ sent' = sent
              [] session[s] = "resolved" ->
                   /\ sent' = [sent EXCEPT ![s] =
                                  Append(@, SentFrame(captured[s] + 1, FALSE))]
                   /\ thenQueue' = thenQueue
              [] OTHER -> UNCHANGED <<thenQueue, sent>>
    /\ lastOp' = Other
    /\ UNCHANGED <<uiVars, connectPc, inputAudioContext, outputAudioContext, stream,
                   sessionPromise, session, processor, transport, onDisconnectCalls>>
    /\ UNCHANGED audioOutVars
    /\ UNCHANGED formVars
    /\ UNCHANGED closeAt

\* ------------------------------------------------------------ playback
\* decodeAudioData (utils/audioUtils) is asynchronous: a decode that was begun
\* may complete at any later step, in any order, with a buffer or a FormatError.
DecodePending(s, c) == c \in 1..Len(chunks[s]) /\ chunks[s][c].st = "decoding"

\* The time source.start was called with for chunk c.
StartOf(s, c) == (CHOOSE r \in {started[s][i] : i \in 1..Len(started[s])} : r.chunk = c).at

\* The chunk that arrived last was already given to source.start.
PreviousScheduled(s) ==
    /\ chunks[s] # <<>>
    /\ chunks[s][Len(chunks[s])].st \in {"started", "stopped", "ended"}

\* onmessage with an inline audio payload of duration d (gemini.ts:97-101), and
\* playAudioResponse up to its await (gemini.ts:151-156); n bounds the number
\* of chunks the server sends.  A chunk remembers whether the chunk before it
\* was scheduled when it arrived.
OnMessageUpTo(s, d, n) ==
    /\ transport[s] = "open"
    /\ Len(chunks[s]) < n
    /\ IF outputAudioContext[s] = "running"
       THEN /\ nextStartTime' = [nextStartTime EXCEPT ![s] = Max(@, currentTime[s])]
            /\ chunks' = [chunks EXCEPT ![s] =
                             Append(@, [dur |-> d, st |-> "decoding",
                                        after |-> PreviousScheduled(s)])]
       ELSE /\ nextStartTime' = nextStartTime
            /\ chunks' = [chunks EXCEPT ![s] =
                             Append(@, [dur |-> d, st |-> "dropped",
                                        after |-> FALSE])]
    /\ lastOp' = Other
    /\ UNCHANGED <<uiVars, connectPc, inputAudioContext, outputAudioContext, stream,
                   sessionPromise, session, processor, transport, onDisconnectCalls,
                   sources, currentTime, started>>
    /\ UNCHANGED audioInVars
    /\ UNCHANGED formVars
    /\ UNCHANGED volumeVars
    /\ UNCHANGED visualVars
    /\ UNCHANGED closeAt

OnMessage(s, d) == OnMessageUpTo(s, d, MaxChunks)

\* Mutant of DecodeDone: the context is not looked at after the await.
DecodeDoneUnguarded(s, c) ==
    /\ DecodePending(s, c)
    /\ started' = [started EXCEPT ![s] =
                      Append(@, [chunk |-> c, at |-> nextStartTime[s]])]
    /\ nextStartTime' = [nextStartTime EXCEPT ![s] = @ + chunks[s][c].dur]
    /\ sources' = [sources EXCEPT ![s] = @ \cup {c}]
    /\ chunks' = [chunks EXCEPT ![s][c].st = "started"]
    /\ lastOp' = Other
    /\ UNCHANGED <<uiVars, connectPc, inputAudioContext, outputAudioContext, stream,
                   sessionPromise, session, processor, transport, onDisconnectCalls,
                   currentTime>>
    /\ UNCHANGED audioInVars
    /\ UNCHANGED formVars
    /\ UNCHANGED volumeVars
    /\ UNCHANGED visualVars
    /\ UNCHANGED closeAt

\* The decode of chunk c completed: playAudioResponse after its await
\* (gemini.ts:163-173). On a nulled outputAudioContext line 163 throws
\* and the chunk is lost.
DecodeDone(s, c) ==
    /\ DecodePending(s, c)
    /\ IF outputAudioContext[s] # "running"
       THEN /\ chunks' = [chunks EXCEPT ![s][c].st = "lost"]
            /\ UNCHANGED <<started, nextStartTime, sources>>
       ELSE /\ started' = [started EXCEPT ![s] =
                              Append(@, [chunk |-> c, at |-> nextStartTime[s]])]
            /\ nextStartTime' = [nextStartTime EXCEPT ![s] = @ + chunks[s][c].dur]
            /\ sources' = [sources EXCEPT ![s] = @ \cup {c}]
            /\ chunks' = [chunks EXCEPT ![s][c].st = "started"]
    /\ lastOp' = Other
    /\ UNCHANGED <<uiVars, connectPc, inputAudioContext, outputAudioContext, stream,
                   sessionPromise, session, processor, transport, onDisconnectCalls,
                   currentTime>>
    /\ UNCHANGED audioInVars
    /\ UNCHANGED formVars
    /\ UNCHANGED volumeVars
    /\ UNCHANGED visualVars
    /\ UNCHANGED closeAt

\* Mutant of DecodeFailed: the failure is reported as the end of the session.
DecodeFailedEndsSession(s, c) ==
    /\ DecodePending(s, c)
    /\ chunks' = [chunks EXCEPT ![s][c].st = "failed"]
    /\ OnDisconnectCallback(s)
    /\ lastOp' = Other
    /\ UNCHANGED <<mounted, error, liveServiceRef, nServices, faults, connectPc,
                   inputAudioContext, outputAudioContext, stream, sessionPromise,
                   session, processor, transport, nextStartTime, sources,
                   currentTime, started>>
    /\ UNCHANGED audioInVars
    /\ UNCHANGED formVars
    /\ UNCHANGED volumeVars
    /\ UNCHANGED visualVars
    /\ UNCHANGED closeAt

\* The decode of chunk c failed: the promise of the un-awaited
\* playAudioResponse call rejects (gemini.ts:100, 156-161).
DecodeFailed(s, c) ==
    /\ DecodePending(s, c)
    /\ chunks' = [chunks EXCEPT ![s][c].st = "failed"]
    /\ lastOp' = Other
    /\ UNCHANGED <<uiVars, connectPc, inputAudioContext, outputAudioContext, stream,
                   sessionPromise, session, processor, transport, onDisconnectCalls,
                   nextStartTime, sources, currentTime, started>>
    /\ UNCHANGED audioInVars
    /\ UNCHANGED formVars
    /\ UNCHANGED volumeVars
    /\ UNCHANGED visualVars
    /\ UNCHANGED closeAt

\* Mutant of OnEnded: the listener leaves the source in the set.
OnEndedKeepsSource(s, c) ==
    /\ c \in 1..Len(chunks[s])
    /\ \/ chunks[s][c].st = "stopped"
       \/ /\ chunks[s][c].st = "started"
          /\ currentTime[s] >= StartOf(s, c) + chunks[s][c].dur
    /\ chunks' = [chunks EXCEPT ![s][c].st = "ended"]
    /\ lastOp' = Other
    /\ UNCHANGED <<uiVars, connectPc, inputAudioContext, outputAudioContext, stream,
                   sessionPromise, session, processor, transport, onDisconnectCalls,
                   nextStartTime, sources, currentTime, started>>
    /\ UNCHANGED audioInVars
    /\ UNCHANGED formVars
    /\ UNCHANGED volumeVars
    /\ UNCHANGED visualVars
    /\ UNCHANGED closeAt

\* The 'ended' listener of the source of chunk c (gemini.ts:167-169): the
\* event fires when the buffer played to its end or after stop().
OnEnded(s, c) ==
    /\ c \in 1..Len(chunks[s])
    /\ \/ chunks[s][c].st = "stopped"
       \/ /\ chunks[s][c].st = "started"
          /\ currentTime[s] >= StartOf(s, c) + chunks[s][c].dur
    /\ chunks' = [chunks EXCEPT ![s][c].st = "ended"]
    /\ sources' = [sources EXCEPT ![s] = @ \ {c}]
    /\ lastOp' = Other
    /\ UNCHANGED <<uiVars, connectPc, inputAudioContext, outputAudioContext, stream,
                   sessionPromise, session, processor, transport, onDisconnectCalls,
                   nextStartTime, currentTime, started>>
    /\ UNCHANGED audioInVars
    /\ UNCHANGED formVars
    /\ UNCHANGED volumeVars
    /\ UNCHANGED visualVars
    /\ UNCHANGED closeAt

\* The output context's clock advances while the context runs.
Tick(s) ==
    /\ outputAudioContext[s] = "running"
    /\ currentTime[s] < MaxTime
    /\ currentTime' = [currentTime EXCEPT ![s] = @ + 1]
    /\ lastOp' = Other
    /\ UNCHANGED <<uiVars, connectPc, inputAudioContext, outputAudioContext, stream,
                   sessionPromise, session, processor, transport, onDisconnectCalls,
                   nextStartTime, sources, chunks, started>>
    /\ UNCHANGED audioInVars
    /\ UNCHANGED formVars
    /\ UNCHANGED volumeVars
    /\ UNCHANGED visualVars
    /\ UNCHANGED closeAt

\* ------------------------------------------------------- LiveInterface
\* startSession (part_000:68-81) up to the await of connect(): the Start
\* button is rendered when !isActive && !error (part_000:134); n bounds the
\* number of sessions the user starts.
StartSessionUpTo(n) ==
    /\ mounted /\ ~isActive /\ error = ""
    /\ nServices < n
    /\ LET s == nServices + 1 IN
       /\ error' = ""
       /\ nServices' = s
       /\ liveServiceRef' = s
       /\ ConnectBegin(s)
       /\ lastOp' = Other
    /\ UNCHANGED <<mounted, isActive, faults, stream, sessionPromise, session,
                   processor, transport, onDisconnectCalls>>
    /\ UNCHANGED <<audioInVars, audioOutVars>>
    /\ UNCHANGED formVars
    /\ UNCHANGED volumeVars
    /\ UNCHANGED visualVars
    /\ UNCHANGED closeAt

StartSession == StartSessionUpTo(MaxServices)

\* endSession (part_000:89-93): the End button is rendered when isActive.
EndSession(f) ==
    /\ mounted /\ isActive
    /\ liveServiceRef # 0
    /\ Disconnect(liveServiceRef, f)
    /\ isActive' = IF DisconnectThrows(liveServiceRef, f) THEN isActive ELSE FALSE
    /\ UNCHANGED <<mounted, error, liveServiceRef, nServices>>
    /\ UNCHANGED formVars
    /\ volume' = IF DisconnectThrows(liveServiceRef, f) THEN volume ELSE Zero
    /\ effectPending' = IF DisconnectThrows(liveServiceRef, f) THEN effectPending
                         ELSE EffectAfter(Zero)
    /\ UNCHANGED <<reported, rafPending>>

\* Unmount: the cleanup of the [volume] effect (part_000:65), then the unmount
\* cleanup (part_000:96-102).
Unmount(f) ==
    /\ mounted
    /\ mounted' = FALSE
    /\ IF liveServiceRef # 0
       THEN Disconnect(liveServiceRef, f)
       ELSE /\ f = "none"
            /\ lastOp' = Other
            /\ UNCHANGED <<faults, connectPc, inputAudioContext, outputAudioContext, stream,
                           sessionPromise, session, processor, transport,
                           onDisconnectCalls>>
            /\ UNCHANGED <<audioInVars, audioOutVars, closeAt>>
    /\ UNCHANGED <<isActive, error, liveServiceRef, nServices>>
    /\ UNCHANGED formVars
    /\ UNCHANGED volumeVars
    /\ rafPending' = CancelAnimationFrame(rafPending)
    /\ effectPending' = FALSE

\* The [volume] effect (part_000:63-66): the cleanup of its previous run,
\* then the effect.
RunEffect ==
    /\ mounted /\ effectPending
    /\ rafPending' = RequestAnimationFrame(CancelAnimationFrame(rafPending))
    /\ effectPending' = FALSE
    /\ UNCHANGED <<mounted, isActive, error, liveServiceRef, nServices, connectPc,
                   inputAudioContext, outputAudioContext, stream, sessionPromise,
                   session, processor, transport, onDisconnectCalls, faults, lastOp>>
    /\ UNCHANGED <<audioInVars, audioOutVars>>
    /\ UNCHANGED formVars
    /\ UNCHANGED volumeVars
    /\ UNCHANGED closeAt

\* The browser runs the oldest pending animation-frame callback:
\* drawVisualizer (part_000:19-61) draws and requests the next frame, or
\* returns at once when the canvas is gone.
FrameCallback ==
    /\ rafPending # <<>>
    /\ rafPending' = IF mounted THEN RequestAnimationFrame(Tail(rafPending))
                     ELSE Tail(rafPending)
    /\ UNCHANGED <<mounted, isActive, error, liveServiceRef, nServices, connectPc,
                   inputAudioContext, outputAudioContext, stream, sessionPromise,
                   session, processor, transport, onDisconnectCalls, faults, lastOp>>
    /\ UNCHANGED <<audioInVars, audioOutVars>>
    /\ UNCHANGED formVars
    /\ UNCHANGED volumeVars
    /\ UNCHANGED effectPending
    /\ UNCHANGED closeAt

\* ------------------------------------------- SetupForm and the instruction
\* A text is a sequence of glyphs.  The glyphs "maison" and "chat" stand for
\* runs of letters; "," and " " are the comma and the blank that split() and
\* trim() look for.  The fixed parts of the template are one glyph each.
Glyphs == {"maison", "chat", ",", " "}
Levels == {<<"A1">>, <<"A2">>}
Modes == {"Text", "Speech"}
Topics == {<<>>, <<"Travel">>}
Words == {<<"maison">>, <<"chat">>}

SeqsUpTo(S, n) == UNION {[1..k -> S] : k \in 0..n}

\* Every AppConfig a caller of the services can pass (types.ts).
AppConfigs ==
    [level : Levels, words : SeqsUpTo(Words, MaxWords), topic : Topics,
     mode : Modes]

\* String.prototype.split(',')
RECURSIVE Split(_)
Split(s) ==
    IF \A i \in 1..Len(s) : s[i] # ","
    THEN <<s>>
    ELSE LET i == CHOOSE k \in 1..Len(s) :
                      s[k] = "," /\ \A j \in 1..(k - 1) : s[j] # ","
         IN  <<SubSeq(s, 1, i - 1)>> \o Split(SubSeq(s, i + 1, Len(s)))

\* String.prototype.trim()
RECURSIVE Trim(_)
Trim(w) ==
    IF w = <<>> THEN w
    ELSE IF Head(w) = " " THEN Trim(Tail(w))
    ELSE IF w[Len(w)] = " " THEN Trim(SubSeq(w, 1, Len(w) - 1))
    ELSE w

\* wordsInput.split(',').map(w => w.trim()).filter(w => w.length > 0)
ParseWords(wordsInput) ==
    LET parts == Split(wordsInput)
        trimmed == [i \in 1..Len(parts) |-> Trim(parts[i])]
        NonEmpty(w) == Len(w) > 0
    IN  SelectSeq(trimmed, NonEmpty)

\* Array.prototype.join(sep)
RECURSIVE Join(_, _)
Join(ws, sep) ==
    IF ws = <<>> THEN <<>>
    ELSE IF Len(ws) = 1 THEN ws[1]
    ELSE ws[1] \o sep \o Join(Tail(ws), sep)

\* a || b on strings: the empty string is falsy.
OrElse(a, b) == IF a # <<>> THEN a ELSE b

\* SYSTEM_INSTRUCTION_TEMPLATE
SYSTEM_INSTRUCTION_TEMPLATE(c) ==
    <<"Role: ... focused on ">> \o c.level
        \o <<" proficiency. Context: ">>
        \o OrElse(c.topic, <<"General Conversation">>)
        \o <<". Target Words: ">> \o Join(c.words, <<",", " ">>)
        \o <<". Rules: 1. 2. 3. If using a word beyond ">> \o c.level
        \o <<", provide inline translation: word [meaning]. 4. 5. 6. 7.">>

\* SetupForm.handleSubmit; the form is rendered only while App has no config.
HandleSubmit(level, wordsInput, topic, mode) ==
    /\ config = <<>>
    /\ LET words == ParseWords(wordsInput)
       IN  IF Len(words) < 1
           THEN /\ formError' = "Please provide at least a few words."
                /\ UNCHANGED config
           ELSE /\ config' = <<[level |-> level, words |-> words,
                                topic |-> OrElse(topic, <<"Daily Life">>),
                                mode |-> mode]>>
                /\ UNCHANGED formError
    /\ UNCHANGED instruction
    /\ UNCHANGED liveVars

\* App.handleBack: the interface and its service are dropped and a fresh
\* SetupForm is rendered.
HandleBack ==
    /\ config # <<>>
    /\ config' = <<>>
    /\ formError' = ""
    /\ instruction' = <<>>
    /\ UNCHANGED liveVars

\* startChat(config) / connect(config, ...): the instruction sent to the model.
BuildInstruction(c) ==
    instruction' = <<[config |-> c, text |-> SYSTEM_INSTRUCTION_TEMPLATE(c)]>>

\* ChatInterface or LiveInterface starts its service with App's config.
InterfaceStart ==
    /\ config # <<>>
    /\ BuildInstruction(config[1])
    /\ UNCHANGED <<config, formError>>
    /\ UNCHANGED liveVars

\* A parent other than App renders ChatInterface or LiveInterface with an
\* AppConfig of its own making as the config prop.
RenderWith(c) ==
    /\ config = <<>>
    /\ config' = <<c>>
    /\ UNCHANGED <<formError, instruction>>
    /\ UNCHANGED liveVars

\* ------------------------------------------------- the service driven directly
\* connect() called on the constructed service.
ApiConnect(s) ==
    /\ connectPc[s] = "idle"
    /\ ConnectBegin(s)
    /\ lastOp' = Other
    /\ UNCHANGED <<uiVars, stream, sessionPromise, session, processor, transport,
                   onDisconnectCalls>>
    /\ UNCHANGED <<audioInVars, audioOutVars>>
    /\ UNCHANGED formVars
    /\ UNCHANGED volumeVars
    /\ UNCHANGED visualVars
    /\ UNCHANGED closeAt

\* disconnect() called at any time.
ApiDisconnect(s, f) ==
    /\ Disconnect(s, f)
    /\ UNCHANGED <<mounted, isActive, error, liveServiceRef, nServices>>
    /\ UNCHANGED formVars
    /\ UNCHANGED volumeVars
    /\ UNCHANGED visualVars

\* ------------------------------------------------------- specifications
\* The platform and transport events of the session of s.
LifecycleStep(s) ==
    \/ MicGranted(s)
    \/ MicRejected(s)
    \/ OnOpen(s)
    \/ SessionResolved(s)
    \/ HandshakeFailed(s)
    \/ OnError(s)
    \/ OnClose(s)

\* The inbound audio events of s.
PlaybackStep(s) ==
    \/ \E d \in Durations : OnMessage(s, d)
    \/ \E c \in 1..MaxChunks : DecodeDone(s, c)
    \/ \E c \in 1..MaxChunks : DecodeFailed(s, c)
    \/ \E c \in 1..MaxChunks : OnEnded(s, c)
    \/ Tick(s)

\* LiveInterface and the sessions it starts: the component, every service's
\* session events and capture callbacks.
Next ==
    \/ StartSession
    \/ \E f \in Faults : EndSession(f)
    \/ \E f \in Faults : Unmount(f)
    \/ \E s \in Svc : LifecycleStep(s)
    \/ \E s \in Svc : Capture(s)

Spec == Init /\ [][Next]_vars

\* One constructed, never connected service and no component.
InitService ==
    /\ mounted = FALSE
    /\ isActive = FALSE
    /\ error = ""
    /\ liveServiceRef = 0
    /\ nServices = 1
    /\ ServiceInit
    /\ faults = 0
    /\ FormInit
    /\ VolumeInit
    /\ VisualInit
    /\ lastOp = Other

\* The whole service, with platform failures injected into disconnect().
NextService ==
    \/ ApiConnect(1)
    \/ \E f \in Faults : ApiDisconnect(1, f)
    \/ LifecycleStep(1)
    \/ Capture(1)
    \/ PlaybackStep(1)

ServiceSpec == InitService /\ [][NextService]_vars

\* The service and its inbound audio, the platform never failing.
NextPlayback ==
    \/ ApiConnect(1)
    \/ ApiDisconnect(1, "none")
    \/ LifecycleStep(1)
    \/ PlaybackStep(1)

PlaybackSpec == InitService /\ [][NextPlayback]_vars

\* The service and its outbound audio, the platform never failing.
NextCapture ==
    \/ ApiConnect(1)
    \/ ApiDisconnect(1, "none")
    \/ LifecycleStep(1)
    \/ Capture(1)

CaptureSpec == InitService /\ [][NextCapture]_vars

\* The service and its inbound audio with a longer burst of chunks.
BurstStep(s) ==
    \/ \E d \in Durations : OnMessageUpTo(s, d, MaxBurst)
    \/ \E c \in 1..MaxBurst : DecodeDone(s, c)
    \/ \E c \in 1..MaxBurst : DecodeFailed(s, c)
    \/ \E c \in 1..MaxBurst : OnEnded(s, c)
    \/ Tick(s)

NextBurst ==
    \/ ApiConnect(1)
    \/ ApiDisconnect(1, "none")
    \/ LifecycleStep(1)
    \/ BurstStep(1)

BurstSpec == InitService /\ [][NextBurst]_vars

\* LiveInterface, its visualizer and the sessions it starts, the platform
\* never failing in disconnect().
NextVisualizer ==
    \/ StartSessionUpTo(MaxSessions)
    \/ EndSession("none")
    \/ Unmount("none")
    \/ \E s \in Svc : LifecycleStep(s)
    \/ \E s \in Svc : Capture(s)
    \/ RunEffect
    \/ FrameCallback

VisualizerSpec == Init /\ [][NextVisualizer]_vars

\* The configuration and the instruction built from it; no session is started.
NextInstruction ==
    \/ \E level \in Levels, wordsInput \in SeqsUpTo(Glyphs, MaxInput),
          topic \in Topics, mode \in Modes :
            HandleSubmit(level, wordsInput, topic, mode)
    \/ HandleBack
    \/ InterfaceStart
    \/ \E c \in AppConfigs : RenderWith(c)

InstructionSpec == InitService /\ [][NextInstruction]_vars

\* ================================================================ claims

\* The state of service s that disconnect() can touch.
ServiceState(s) ==
    <<inputAudioContext[s], outputAudioContext[s], stream[s], sessionPromise[s],
      session[s], processor[s], nextStartTime[s], sources[s], transport[s],
      thenQueue[s], chunks[s]>>

\* A source of s is scheduled or playing.
PlaybackActive(s) == \E c \in 1..Len(chunks[s]) : chunks[s][c].st = "started"

\* C1: disconnect() is idempotent. Every call the platform does not fail
\* (on a never-connected, a connected or an already-disconnected service)
\* raises no error and returns with the source set empty and no source
\* scheduled or playing; a call that directly follows a completed disconnect
\* of the same service changes nothing.
DisconnectIdempotent ==
    [][\A s \in Svc :
          (lastOp'.op = "disconnect" /\ lastOp'.svc = s /\ lastOp'.fault = "none") =>
             /\ ~lastOp'.threw
             /\ sources'[s] = {}
             /\ ~PlaybackActive(s)'
             /\ (lastOp'.again => ServiceState(s)' = ServiceState(s))
      ]_vars

\* C1 witness: a second disconnect in a row, the first having stopped a source.
DisconnectedTwice ==
    /\ lastOp.op = "disconnect" /\ lastOp.again
    /\ \E c \in 1..Len(chunks[1]) : chunks[1][c].st = "stopped"

\* C2 (as claimed): the start times follow arrival order, each chunk starting
\* no earlier than the end of the chunk that arrived before it.
StartTimesFollowArrival ==
    \A s \in Svc : \A i, j \in 1..Len(chunks[s]) :
        (i < j /\ chunks[s][i].st \in {"started", "stopped", "ended"}
               /\ chunks[s][j].st \in {"started", "stopped", "ended"})
        => StartOf(s, j) >= StartOf(s, i) + chunks[s][i].dur

\* C3 (as claimed): onDisconnect is invoked exactly once when the transport
\* ends the session, and never more than once.
OnDisconnectExactlyOnce ==
    \A s \in Svc :
        /\ onDisconnectCalls[s] <= 1
        /\ transport[s] = "closed" => onDisconnectCalls[s] = 1

\* The remote side closed the session of s or its transport failed.
TransportEnded(s) == transport[s] \in {"errored", "failed", "closed"}

\* C4 (as claimed): once the transport ended the session, the capture stream
\* is released, the capture callback no longer runs and no source is left
\* in the playback set.
RemoteEndEndsLocalSession ==
    \A s \in Svc :
        TransportEnded(s) =>
            /\ stream[s] # "live"
            /\ ~(processor[s] = "connected" /\ inputAudioContext[s] = "running")
            /\ sources[s] = {}

\* The close of the remote session of s was requested (or is moot).
CloseRequested(s) ==
    CASE session[s] = "pending" -> HasClose(thenQueue[s])
      [] session[s] = "resolved" -> transport[s] # "open"
      [] OTHER -> TRUE

\* C5 (as claimed): whatever step fails, disconnect() returns with every
\* other step carried out: the remote close requested, every source stopped,
\* the tracks stopped and both contexts closed.
DisconnectBestEffort ==
    lastOp.op = "disconnect" =>
        LET s == lastOp.svc IN
        /\ lastOp.fault # "close" => CloseRequested(s)
        /\ lastOp.fault # "stop" => (sources[s] = {} /\ ~PlaybackActive(s))
        /\ lastOp.fault # "tracks" => stream[s] # "live"
        /\ lastOp.fault # "ctx" => /\ inputAudioContext[s] # "running"
                                   /\ outputAudioContext[s] # "running"

\* C6 (as claimed): after getUserMedia rejected (the component still mounted),
\* isActive is false, the error message is set and the component references
\* no service.
RejectedMicLeavesNothing ==
    (lastOp.op = "startSessionFailed" /\ mounted) =>
        /\ ~isActive
        /\ error # ""
        /\ liveServiceRef = 0

\* C7 (as claimed): a failed handshake makes connect() reject and the caller's
\* error path run.
HandshakeFailureFailsConnect ==
    \A s \in Svc :
        session[s] = "rejected" =>
            /\ connectPc[s] = "rejected"
            /\ mounted => error = ErrorMessage

\* The service s holds a live capture stream, an open audio context or an
\* open (or opening) remote session.
HoldsSession(s) ==
    \/ stream[s] = "live"
    \/ inputAudioContext[s] = "running"
    \/ outputAudioContext[s] = "running"
    \/ transport[s] \in {"connecting", "open"}

\* C8 (as claimed): at most one service holds a session.
AtMostOneSession == Cardinality({s \in Svc : HoldsSession(s)}) <= 1

\* C9: frames are handed to sendRealtimeInput in capture order, each once,
\* whether their reactions were registered before or after the session
\* promise resolved.
FramesSentInCaptureOrder ==
    \A s \in Svc : \A i, j \in 1..Len(sent[s]) :
        i < j => sent[s][i].frame < sent[s][j].frame

\* C9 witness: a frame captured before the promise resolved and a frame
\* captured after it have both been sent.
SentEarlyAndLateFrames ==
    \E i, j \in 1..Len(sent[1]) : sent[1][i].early /\ ~sent[1][j].early

\* C10: a failed decode drops only its chunk: onDisconnect is not invoked,
\* nothing of the session is torn down, the source set and the cursor are
\* untouched, and every other chunk is left as it was, so that a pending or
\* later chunk is still decoded and scheduled.
DecodeFailureDropsOnlyChunk ==
    [][\A s \in Svc : \A c \in 1..Len(chunks[s]) :
          (chunks[s][c].st = "decoding" /\ chunks'[s][c].st = "failed") =>
             /\ onDisconnectCalls' = onDisconnectCalls
             /\ isActive' = isActive
             /\ sources' = sources
             /\ nextStartTime' = nextStartTime
             /\ started' = started
             /\ <<inputAudioContext, outputAudioContext, stream, sessionPromise,
                  session, processor, transport>>' =
                <<inputAudioContext, outputAudioContext, stream, sessionPromise,
                  session, processor, transport>>
             /\ \A d \in 1..Len(chunks[s]) : d # c => chunks'[s][d] = chunks[s][d]
      ]_vars

\* C10 witness: the first chunk failed to decode and the second one, which
\* arrived after it, was scheduled.
LaterChunkPlayedAfterFailure ==
    /\ Len(chunks[1]) >= 2
    /\ chunks[1][1].st = "failed"
    /\ chunks[1][2].st = "started"
    /\ 2 \in sources[1]

\* ---------------------------------------------------------------- C11
Contains(text, part) ==
    \E i \in 1..(Len(text) - Len(part) + 1) :
        SubSeq(text, i, i + Len(part) - 1) = part

\* The words occur in text one after another, in the order of the list.
RECURSIVE InOrderFrom(_, _, _)
InOrderFrom(text, ws, from) ==
    IF ws = <<>> THEN TRUE
    ELSE \E i \in from..(Len(text) - Len(ws[1]) + 1) :
            /\ SubSeq(text, i, i + Len(ws[1]) - 1) = ws[1]
            /\ InOrderFrom(text, Tail(ws), i + Len(ws[1]))

\* C11: the instruction built from a configuration names its level and every
\* one of its words in list order, and when the configuration's topic is
\* empty it names the fallback topic "Daily Life".
EmptyTopicFallsBackToDailyLife ==
    \A k \in 1..Len(instruction) :
        LET c == instruction[k].config
            text == instruction[k].text
        IN  /\ Contains(text, c.level)
            /\ InOrderFrom(text, c.words, 1)
            /\ c.topic = <<>> => Contains(text, <<"Daily Life">>)

\* ---------------------------------------------------------------- C12
\* C12: every value passed to onVolumeChange lies in [0, 255].
ReportedVolumeInByteRange ==
    \A k \in 1..Len(reported) :
        /\ 0 <= reported[k].num
        /\ reported[k].num <= ByteMax * reported[k].den

\* A capture callback reported the largest possible mean: every bin full.
ReportedFullScale ==
    /\ captured[1] > 0
    /\ reported = <<Rat(ByteMax, 1)>>

\* ---------------------------------------------------------------- C13
\* source.start was called for s in this step.
StartCalled(s) == Len(started'[s]) > Len(started[s])

\* The time that call was given.
StartArgument(s) == started'[s][Len(started'[s])].at

\* C13: every source.start(t) is called with t no earlier than the output
\* context's currentTime at the moment of the call, however long the decode
\* of the chunk took.
StartNeverInThePast ==
    [][\A s \in Svc : StartCalled(s) => StartArgument(s) >= currentTime[s]]_vars

\* ---------------------------------------------------------------- C14
\* C14: nextStartTime never decreases, whatever the operations are (arrivals,
\* decode completions, ended events, clock advance, disconnect).
NextStartTimeNeverDecreases ==
    [][\A s \in Svc : nextStartTime'[s] >= nextStartTime[s]]_vars

\* The cursor ran ahead of the clock, a later chunk arrived, and the service
\* was disconnected.
CursorAheadThenDisconnected ==
    /\ outputAudioContext[1] = "closed"
    /\ Len(chunks[1]) = MaxChunks
    /\ chunks[1][1].st \in {"stopped", "ended"}
    /\ nextStartTime[1] > currentTime[1]

\* ---------------------------------------------------------------- C15
\* The scheduled interval of the k-th started source of s ends here.
EndOf(s, k) == started[s][k].at + chunks[s][started[s][k].chunk].dur

\* C15: for every interleaving of arrivals and decode completions the
\* chunks are started in the order they arrived, and no two scheduled
\* intervals overlap.
ChunksInOrderWithoutOverlap ==
    \A s \in Svc : \A i, j \in 1..Len(started[s]) :
        i < j =>
            /\ started[s][i].chunk < started[s][j].chunk
            /\ EndOf(s, i) <= started[s][j].at

\* ---------------------------------------------------------------- C16
\* The chunk source.start is called for in this step.
StartedChunk(s) == started'[s][Len(started'[s])].chunk

\* C16: a chunk that arrived after the chunk before it was scheduled, and
\* whose decode completes before that chunk's scheduled end, is started
\* exactly at that chunk's start time plus that chunk's duration.
GapFreePlayback ==
    [][\A s \in Svc :
          (/\ StartCalled(s)
           /\ StartedChunk(s) > 1
           /\ chunks[s][StartedChunk(s)].after
           /\ currentTime[s] < StartOf(s, StartedChunk(s) - 1)
                                  + chunks[s][StartedChunk(s) - 1].dur)
          => StartArgument(s) = StartOf(s, StartedChunk(s) - 1)
                                  + chunks[s][StartedChunk(s) - 1].dur]_vars

\* ---------------------------------------------------------------- C17
\* This step is a call of disconnect() on s.
DisconnectCalled(s) == lastOp'.op = "disconnect" /\ lastOp'.svc = s

\* C17: disconnect() stops every source that is in the playback set when it
\* is called, and once it has run no chunk is started or added to the set,
\* in particular not a chunk received before the call whose decode
\* completes after it.
DisconnectStopsAllPlayback ==
    [][\A s \in Svc :
          /\ DisconnectCalled(s) =>
                /\ \A c \in sources[s] : chunks'[s][c].st = "stopped"
                /\ sources'[s] = {}
          /\ outputAudioContext[s] = "closed" =>
                /\ started'[s] = started[s]
                /\ sources'[s] = {}]_vars

\* disconnect() stopped a playing source while another chunk was decoding,
\* and that decode has completed since.
DecodeCompletedAfterDisconnect ==
    /\ \E c \in 1..Len(chunks[1]) : chunks[1][c].st = "stopped"
    /\ \E c \in 1..Len(chunks[1]) : chunks[1][c].st = "lost"

\* ---------------------------------------------------------------- C18
\* connect() of s failed: getUserMedia rejected, or the handshake failed.
ConnectFailed(s) == connectPc[s] = "rejected" \/ session[s] = "rejected"

\* C18: after a failed connect() the service holds no open input or output
\* audio context, no capture stream and no session handle.
ConnectAllOrNothing ==
    \A s \in Svc :
        ConnectFailed(s) =>
            /\ inputAudioContext[s] # "running"
            /\ outputAudioContext[s] # "running"
            /\ stream[s] # "live"
            /\ ~sessionPromise[s]

\* ---------------------------------------------------------------- C19
\* onopen has not fired for s.
BeforeOnOpen(s) == transport[s] \in {"none", "connecting", "failed"}

\* onopen fires for s in this step, after disconnect() was called.
OnOpenAfterDisconnect(s) ==
    /\ transport[s] = "connecting" /\ transport'[s] = "open"
    /\ inputAudioContext[s] = "closed"

\* C19: no capture processor exists and no frame is captured or sent before
\* onopen has fired; when disconnect() was called before onopen fires,
\* startAudioInput creates no processor, and a session without a processor
\* never captures or sends a frame.
CaptureStartsAtOnOpen ==
    [][\A s \in Svc :
          /\ BeforeOnOpen(s) =>
                processor[s] = "null" /\ captured[s] = 0 /\ sent[s] = <<>>
          /\ OnOpenAfterDisconnect(s) => processor'[s] = "null"
          /\ processor[s] = "null" =>
                captured'[s] = 0 /\ sent'[s] = <<>> /\ thenQueue'[s] \in
                    {<<>>, <<CloseReaction>>}]_vars

\* disconnect() was called before onopen, onopen has fired since, and the
\* session resolved and was closed without a frame.
OpenedAfterDisconnect ==
    /\ transport[1] \in {"closing", "closed"}
    /\ session[1] = "resolved"
    /\ processor[1] = "null"
    /\ sent[1] = <<>>

\* ---------------------------------------------------------------- C20
\* The sources of s that were started and have neither ended nor been
\* stopped.
LiveSources(s) == {c \in 1..Len(chunks[s]) : chunks[s][c].st = "started"}

\* C20: in every reachable state the playback set holds exactly the sources
\* that were started and have neither ended nor been stopped by disconnect().
SourcesAreTheLiveSources == \A s \in Svc : sources[s] = LiveSources(s)

\* An 'ended' notification arrived for a source that disconnect() had
\* stopped before its scheduled end, after the set was cleared.
EndedAfterDisconnect ==
    \E c \in 1..Len(chunks[1]) :
        /\ chunks[1][c].st = "ended"
        /\ currentTime[1] < StartOf(1, c) + chunks[1][c].dur
        /\ outputAudioContext[1] = "closed"

\* ---------------------------------------------------------------- C21
\* C21: while LiveInterface is mounted at most one animation-frame callback
\* of the visualizer is pending, however frame callbacks and re-runs of the
\* [volume] effect interleave, and once it is unmounted none is pending, so
\* that none runs again.
AtMostOnePendingFrame ==
    /\ Len(rafPending) <= 1
    /\ ~mounted => rafPending = <<>>

\* A volume update re-ran the effect while the loop was running, and one
\* callback is pending.
EffectReRanWithLoopRunning ==
    /\ mounted /\ ~effectPending
    /\ volume # Zero
    /\ rafPending = <<TRUE>>

\* ---------------------------------------------------------------- C22
\* connect() of s finishes in this step, disconnect() having been called
\* while it awaited the microphone.
ConnectFinishesAfterDisconnect(s) ==
    /\ connectPc[s] = "awaitMic" /\ connectPc'[s] # "awaitMic"
    /\ inputAudioContext[s] = "closed"

\* C22: when disconnect() was called while connect() awaited microphone
\* access, the service holds no live capture stream and no open or pending
\* remote session once connect() has finished.
NothingAcquiredAfterDisconnect ==
    [][\A s \in Svc :
          ConnectFinishesAfterDisconnect(s) =>
              /\ stream'[s] # "live"
              /\ ~sessionPromise'[s]
              /\ transport'[s] \notin {"connecting", "open"}]_vars

\* ---------------------------------------------------------------- C23
\* The frames handed to sendRealtimeInput of the session of s.
SentFrames(s) == {sent[s][i].frame : i \in 1..Len(sent[s])}

\* C23: once the close() of a session was invoked, every frame captured
\* before disconnect() was sent before that invocation, and no
\* sendRealtimeInput is invoked after it.  No frame is captured after
\* disconnect(), so the frames captured before it are the frames 1..captured.
FramesSentBeforeClose ==
    \A s \in Svc :
        closeAt[s] >= 0 =>
            /\ Len(sent[s]) = closeAt[s]
            /\ SentFrames(s) = 1..captured[s]

\* close() was invoked behind frames that were captured while the session
\* promise was pending.
ClosedBehindQueuedFrames ==
    /\ closeAt[1] >= 1
    /\ \A i \in 1..Len(sent[1]) : sent[1][i].early

=============================================================================
